---- MODULE Spec2Model ----
(***************************************************************************)
(* Loop detection of gemini-cli.                                           *)
(*                                                                         *)
(*  - LoopDetectionService (packages/core/src/services/                    *)
(*    loopDetectionService.ts): the stream-mode engine.  addAndCheck is    *)
(*    fed one stream event at a time and answers whether a loop has been   *)
(*    detected; reset() clears it.                                         *)
(*  - useLoopBreaker (packages/cli/src/ui/hooks/useLoopBreaker.ts): the    *)
(*    history-mode hook, whose effect runs when the history or the         *)
(*    streaming state changes.                                             *)
(*                                                                         *)
(* JavaScript strings are TLA+ strings (a character is a string of length  *)
(* one); a Map is a function whose DOMAIN is the set of keys it holds.     *)
(***************************************************************************)
EXTENDS Integers, Sequences, FiniteSets, TLC

VARIABLES
    toolCallCounts,       \* LoopDetectionService.toolCallCounts : Map<string, number>
    accumulatedContent,   \* LoopDetectionService.accumulatedContent : string
    cachedSentences,      \* LoopDetectionService.cachedSentences : string[]
    lastContentLength,    \* LoopDetectionService.lastContentLength : number
    call,                 \* the last call made on the service, with its argument
                          \* (for reset: whether the service was as constructed)
    result,               \* how that call ended: "true", "false", "TypeError", "void"
    occ,                  \* history: tool-call event -> times fed since new / reset()
    fed,                  \* history: the content deltas fed since new / reset(), in order
    history,              \* useLoopBreaker: the history prop, HistoryItem[]
    streamingState,       \* useLoopBreaker: the streamingState prop
    toolCallCountsRef,    \* useLoopBreaker: toolCallCounts.current : Map<string, number>
    lastHistoryLengthRef, \* useLoopBreaker: lastHistoryLength.current : number
    effect,               \* the last run of the effect: the item appended to the
                          \* history before it, the tool calls its loop counted, and
                          \* the reasons it passed to cancelRequest
    streak,               \* history: the runs of the effect since the last Idle run, as
                          \* long as each came with the same one-call tool group appended
                          \* while Responding
    idleLength,           \* history: the length of the history at the last Idle run
    cancels               \* history: the calls of cancelRequest since the last Idle run

engineVars == <<toolCallCounts, accumulatedContent, cachedSentences, lastContentLength>>
serviceVars == <<toolCallCounts, accumulatedContent, cachedSentences, lastContentLength,
                 call, result, occ, fed>>
hookVars == <<history, streamingState, toolCallCountsRef, lastHistoryLengthRef,
              effect, streak, idleLength, cancels>>
vars == <<toolCallCounts, accumulatedContent, cachedSentences, lastContentLength,
          call, result, occ, fed,
          history, streamingState, toolCallCountsRef, lastHistoryLengthRef,
          effect, streak, idleLength, cancels>>

(***************************************************************************)
(* Program constants.                                                      *)
(***************************************************************************)
TOOL_CALL_LOOP_THRESHOLD == 5
CONTENT_LOOP_THRESHOLD == 10
MAX_LOOPBACK_WINDOW == 1000
\* useLoopBreaker.ts
LOOP_THRESHOLD == 5

(***************************************************************************)
(* Bounds of the model.                                                    *)
(***************************************************************************)
\* SpecTool: how often one tool-call event is fed between two resets.
MaxCalls == 6
\* How many events of the other detector are interleaved between two
\* resets.
MaxInterleaved == 1
\* Spec: how many content deltas are fed between two resets.
MaxEvents == 3
\* SpecRepeat: how often the sentence is fed between two resets.
MaxRepeats == 11
\* SpecWindow: how many content deltas are fed between two resets.
MaxWindowEvents == 3
\* SpecHook: how long the history grows.
MaxHistory == 6
\* SpecGroups: how long the history grows.
MaxGroups == 5

(***************************************************************************)
(* Strings.                                                                *)
(***************************************************************************)
Char(s, i) == SubSeq(s, i, i)

Min(S) == CHOOSE x \in S : \A y \in S : x <= y
Max(S) == CHOOSE x \in S : \A y \in S : x >= y

\* s repeated n times ('A'.repeat(n)).
RECURSIVE Repeat(_, _)
Repeat(s, n) ==
    IF n = 0 THEN ""
    ELSE LET h == Repeat(s, n \div 2)
         IN  IF n % 2 = 0 THEN h \o h ELSE h \o h \o s

(***************************************************************************)
(* JSON.stringify on the argument objects of the model.  An object is the  *)
(* sequence of its own enumerable string-keyed properties in insertion     *)
(* order, which is the order JSON.stringify writes them in; a property is  *)
(* <<key, value>>.  A value is a string, a number (held as its decimal     *)
(* digits), or a BigInt, which JSON.stringify refuses with a TypeError.    *)
(***************************************************************************)
Str(s) == [t |-> "string", v |-> s]
Num(digits) == [t |-> "number", v |-> digits]
BigInt(digits) == [t |-> "bigint", v |-> digits]

Serializable(args) == \A i \in 1..Len(args) : args[i][2].t # "bigint"

StringifyValue(val) ==
    CASE val.t = "string" -> "\"" \o val.v \o "\""
      [] val.t = "number" -> val.v

RECURSIVE StringifyProps(_)
StringifyProps(props) ==
    IF props = <<>> THEN ""
    ELSE LET p == props[1]
             one == "\"" \o p[1] \o "\":" \o StringifyValue(p[2])
         IN  IF Len(props) = 1 THEN one
             ELSE one \o "," \o StringifyProps(Tail(props))

JSONstringify(args) == "{" \o StringifyProps(args) \o "}"

\* createHash('sha256').update(s).digest('hex'): the digest is not computed;
\* it is taken to be free of collisions on the strings of the model.
Sha256Hex(s) == "sha256(" \o s \o ")"

(***************************************************************************)
(* LoopDetectionService.getToolCallKey                                     *)
(***************************************************************************)
getToolCallKey_nameOnly(toolCall) == Sha256Hex(toolCall.name)

getToolCallKey(toolCall) ==
    LET argsString == JSONstringify(toolCall.args)
        keyString == toolCall.name \o ":" \o argsString
    IN  Sha256Hex(keyString)

\* getToolCallKey(event.value) ends in a TypeError when event.value is
\* undefined (toolCall.args reads a property of undefined) and when
\* JSON.stringify meets a value it refuses.
getToolCallKeyThrows(event) ==
    \/ "value" \notin DOMAIN event
    \/ ~Serializable(event.value.args)

\* this.toolCallCounts.get(key) ?? 0
MapGet(map, key) == IF key \in DOMAIN map THEN map[key] ELSE 0

MapSet_dropsOthers(map, key, count) == [k \in {key} |-> count]

\* this.toolCallCounts.set(key, count)
MapSet(map, key, count) ==
    [k \in DOMAIN map \cup {key} |-> IF k = key THEN count ELSE map[k]]

EmptyMap == [k \in {} |-> 0]

ToolCallLoop_gt(count) == count > TOOL_CALL_LOOP_THRESHOLD

ToolCallLoop_once(count) == count = TOOL_CALL_LOOP_THRESHOLD

\* return count >= TOOL_CALL_LOOP_THRESHOLD
ToolCallLoop(count) == count >= TOOL_CALL_LOOP_THRESHOLD

Bool(b) == IF b THEN "true" ELSE "false"

(***************************************************************************)
(* Events.                                                                 *)
(***************************************************************************)
ToolCallRequestEvent(name, args) ==
    [type |-> "tool_call_request", value |-> [name |-> name, args |-> args]]
ContentEvent(content) == [type |-> "content", value |-> content]
UnhandledEvent == [type |-> "unhandled_event"]
\* A tool-call event that carries no value.
NoValueEvent == [type |-> "tool_call_request"]

\* The tool-call requests of the model.  CallAB and CallBA hold the same
\* properties in a different order.
CallAB == ToolCallRequestEvent("testTool", <<<<"param", Str("A")>>, <<"n", Num("1")>>>>)
CallBA == ToolCallRequestEvent("testTool", <<<<"n", Num("1")>>, <<"param", Str("A")>>>>)
CallB == ToolCallRequestEvent("testTool", <<<<"param", Str("B")>>, <<"n", Num("1")>>>>)
CallOther == ToolCallRequestEvent("anotherTool", <<<<"param", Str("A")>>, <<"n", Num("1")>>>>)
CallBigInt == ToolCallRequestEvent("testTool", <<<<"param", BigInt("1")>>>>)

WellFormedCalls == {CallAB, CallBA, CallB, CallOther}
ToolCallEvents == WellFormedCalls \cup {CallBigInt, NoValueEvent}

(***************************************************************************)
(* useLoopBreaker: history items, and the state of the hook when the       *)
(* component mounts.                                                       *)
(***************************************************************************)
StreamingStates == {"Idle", "Responding", "WaitingForConfirmation"}

ToolCallDisplay(name, description, resultDisplay) ==
    [name |-> name, description |-> description, resultDisplay |-> resultDisplay]
ToolGroup(tools) == [type |-> "tool_group", tools |-> tools]
UserItem == [type |-> "user"]
\* No item was appended before a run of the effect.
NoItem == [type |-> "none"]

ToolA == ToolCallDisplay("test-tool", "desc", <<<<"data", Str("a")>>>>)
ToolB == ToolCallDisplay("test-tool", "desc", <<<<"data", Str("b")>>>>)

HistoryItems == {UserItem, ToolGroup(<<ToolA>>)}

\* Two tool calls that differ in name and in description, with a '-' in
\* them.
ToolDashName == ToolCallDisplay("read-file", "x", <<<<"data", Str("a")>>>>)
ToolDashDesc == ToolCallDisplay("read", "file-x", <<<<"data", Str("a")>>>>)

GroupTools == {ToolA, ToolB, ToolDashName, ToolDashDesc}
GroupItems ==
    {ToolGroup(<<ToolDashName>>), ToolGroup(<<ToolDashDesc>>), ToolGroup(<<ToolA, ToolB>>)}

CancelReason ==
    "A potential loop was detected due to repetitive tool calls. The request has been cancelled. Please try again with a more specific prompt."

NoStreak == [ok |-> FALSE, n |-> 0, item |-> NoItem]
NewStreak == [ok |-> TRUE, n |-> 0, item |-> NoItem]

Mounted ==
    /\ history = <<>>
    /\ streamingState = "Idle"
    /\ toolCallCountsRef = EmptyMap
    /\ lastHistoryLengthRef = 0
    /\ effect = [ran |-> FALSE]
    /\ streak = NewStreak
    /\ idleLength = 0
    /\ cancels = 0

(***************************************************************************)
(* State after construction (and after reset()).                           *)
(***************************************************************************)
\* What the field initializers of the class (lines 15-18) set.
Constructed ==
    /\ toolCallCounts = EmptyMap
    /\ accumulatedContent = ""
    /\ cachedSentences = <<>>
    /\ lastContentLength = 0

Init ==
    /\ Constructed
    /\ call = [op |-> "new"]
    /\ result = "void"
    /\ occ = [e \in WellFormedCalls |-> 0]
    /\ fed = <<>>
    /\ Mounted

(***************************************************************************)
(* The content branch of addAndCheck.                                      *)
(***************************************************************************)
IsTerminal(c) == c \in {".", "!", "?"}
IsSpace_punctuation(c) == c \in {" ", "\t", "\n", "."}

IsSpace(c) == c \in {" ", "\t", "\n"}

\* /[.!?]/.test(newContent)
HasTerminal(s) == \E k \in 1..Len(s) : IsTerminal(Char(s, Len(s) + 1 - k))

\* Where s holds a terminal character.
TerminalPositions(s) == {i \in 1..Len(s) : IsTerminal(Char(s, i))}

\* The end of the leftmost match of /[^.!?]+[.!?]/ at or after position
\* from (0 when there is none): the first terminal character that follows
\* a non-terminal character at or after from.  T is TerminalPositions(s).
FirstMatchEnd(T, from) ==
    LET ends == {i \in T : i > from /\ (i - 1) \notin T}
    IN  IF ends = {} THEN 0 ELSE Min(ends)

\* Where that match starts: the + is greedy and the match leftmost, so it
\* starts right after the last terminal character before its run.
MatchStart(T, from, end) ==
    1 + Max({from - 1} \cup {k \in T : from <= k /\ k < end})

\* The matches of /[^.!?]+[.!?]/g in s at or after position from, in order;
\* after a match the scan goes on behind it.
RECURSIVE MatchFrom(_, _, _)
MatchFrom(s, T, from) ==
    LET end == FirstMatchEnd(T, from)
    IN  IF end = 0 THEN <<>>
        ELSE <<SubSeq(s, MatchStart(T, from, end), end)>> \o MatchFrom(s, T, end + 1)

\* s.match(/[^.!?]+[.!?]/g) || []
MatchSentences(s) == MatchFrom(s, TerminalPositions(s), 1)

\* String.prototype.trim: s without its leading and trailing white space.
Trim(s) ==
    IF \A i \in 1..Len(s) : IsSpace(Char(s, i)) THEN ""
    ELSE LET n == Len(s)
             first == CHOOSE i \in 1..n :
                          /\ ~IsSpace(Char(s, i))
                          /\ \A j \in 1..(i - 1) : IsSpace(Char(s, j))
             back == CHOOSE k \in 1..n :
                          /\ ~IsSpace(Char(s, n + 1 - k))
                          /\ \A j \in 1..(k - 1) : IsSpace(Char(s, n + 1 - j))
         IN  SubSeq(s, first, n + 1 - back)

\* s.slice(n), 0 <= n <= s.length
Slice(s, n) == SubSeq(s, n + 1, Len(s))

LimitContent_keepsOldest(content) ==
    IF Len(content) > MAX_LOOPBACK_WINDOW
    THEN SubSeq(content, 1, MAX_LOOPBACK_WINDOW)
    ELSE content

LimitContent_unlimited(content) == content

\* Lines 40-43: the accumulated content limited to the loopback window.
LimitContent(content) ==
    IF Len(content) > MAX_LOOPBACK_WINDOW
    THEN Slice(content, Len(content) - MAX_LOOPBACK_WINDOW)
    ELSE content

ResetCacheOnTrim_keeps(trimmed, cached, lastLength) ==
    [cachedSentences |-> cached, lastContentLength |-> lastLength]

\* Lines 44-46: the cache and the tracker after the limit; they are reset
\* when the content was trimmed.
ResetCacheOnTrim(trimmed, cached, lastLength) ==
    IF trimmed
    THEN [cachedSentences |-> <<>>, lastContentLength |-> 0]
    ELSE [cachedSentences |-> cached, lastContentLength |-> lastLength]

SentenceLikelyComplete_always(newContent) == TRUE

\* Lines 49-53: the check goes on only when the new content holds
\* sentence-ending punctuation.
SentenceLikelyComplete(newContent) == HasTerminal(newContent)

ReExtract_ge(content, lastLength, cached) ==
    \/ Len(content) - lastLength >= 100
    \/ Len(cached) = 0

\* Lines 56-59: whether the cached sentences are extracted again.
ReExtract(content, lastLength, cached) ==
    \/ Len(content) - lastLength > 100
    \/ Len(cached) = 0

AllSentences_cached(matched, cached) == cached

\* Lines 66-67: the sentences that are counted are matched in the
\* accumulated content (matched), whatever the cache holds.
AllSentences(matched, cached) == matched

ContentLoop_gt(allSentences) ==
    LET lastSentence == Trim(allSentences[Len(allSentences)])
        count == Cardinality({i \in 1..Len(allSentences) :
                                 Trim(allSentences[i]) = lastSentence})
    IN  IF Len(allSentences) < 2 THEN FALSE
        ELSE IF lastSentence = "" THEN FALSE
        ELSE count > CONTENT_LOOP_THRESHOLD

ContentLoop_lone(allSentences) ==
    LET lastSentence == Trim(allSentences[Len(allSentences)])
        count == Cardinality({i \in 1..Len(allSentences) :
                                 Trim(allSentences[i]) = lastSentence})
    IN  IF Len(allSentences) < 2 THEN TRUE
        ELSE IF lastSentence = "" THEN FALSE
        ELSE count >= CONTENT_LOOP_THRESHOLD

\* Counts only the sentences at the end that repeat the last one.
ContentLoop_consecutive(allSentences) ==
    LET n == Len(allSentences)
        lastSentence == Trim(allSentences[n])
        count == Cardinality({i \in 1..n :
                                 \A j \in i..n : Trim(allSentences[j]) = lastSentence})
    IN  IF n < 2 THEN FALSE
        ELSE IF lastSentence = "" THEN FALSE
        ELSE count >= CONTENT_LOOP_THRESHOLD

\* Lines 69-89: the answer computed from the sentences of the accumulated
\* content.
ContentLoop(allSentences) ==
    LET lastSentence == Trim(allSentences[Len(allSentences)])
        count == Cardinality({i \in 1..Len(allSentences) :
                                 Trim(allSentences[i]) = lastSentence})
    IN  IF Len(allSentences) < 2 THEN FALSE
        ELSE IF lastSentence = "" THEN FALSE
        ELSE count >= CONTENT_LOOP_THRESHOLD

(***************************************************************************)
(* LoopDetectionService.addAndCheck, one action for each case of its       *)
(* switch, and LoopDetectionService.reset.                                 *)
(***************************************************************************)
Feeds(event) == call' = [op |-> "addAndCheck", event |-> event]

ToolCallRequest_restartsContent(event) ==
    /\ event.type = "tool_call_request"
    /\ Feeds(event)
    /\ IF getToolCallKeyThrows(event)
       THEN /\ result' = "TypeError"
            /\ UNCHANGED toolCallCounts
       ELSE LET key == getToolCallKey(event.value)
                count == MapGet(toolCallCounts, key) + 1
            IN  /\ toolCallCounts' = MapSet(toolCallCounts, key, count)
                /\ result' = Bool(ToolCallLoop(count))
    /\ occ' = IF event \in DOMAIN occ THEN [occ EXCEPT ![event] = @ + 1] ELSE occ
    /\ accumulatedContent' = ""
    /\ UNCHANGED <<cachedSentences, lastContentLength, fed>>
    /\ UNCHANGED hookVars

\* case GeminiEventType.ToolCallRequest
ToolCallRequest(event) ==
    /\ event.type = "tool_call_request"
    /\ Feeds(event)
    /\ IF getToolCallKeyThrows(event)
       THEN /\ result' = "TypeError"
            /\ UNCHANGED toolCallCounts
       ELSE LET key == getToolCallKey(event.value)
                count == MapGet(toolCallCounts, key) + 1
            IN  /\ toolCallCounts' = MapSet(toolCallCounts, key, count)
                /\ result' = Bool(ToolCallLoop(count))
    /\ occ' = IF event \in DOMAIN occ THEN [occ EXCEPT ![event] = @ + 1] ELSE occ
    /\ UNCHANGED <<accumulatedContent, cachedSentences, lastContentLength, fed>>
    /\ UNCHANGED hookVars

\* case GeminiEventType.Content (lines 35-90): the fields it leaves and the
\* value it returns, from the fields it finds and the new content.
ContentCase(accumulated, cachedBefore, lastLengthBefore, newContent) ==
    LET appended == accumulated \o newContent
        trimmed == Len(appended) > MAX_LOOPBACK_WINDOW
        content == LimitContent(appended)
        limited == ResetCacheOnTrim(trimmed, cachedBefore, lastLengthBefore)
        cached == limited.cachedSentences
        lastLength == limited.lastContentLength
        \* this.accumulatedContent.match(/[^.!?]+[.!?]/g) || [], lines 61 and 67
        matched == MatchSentences(content)
        complete == SentenceLikelyComplete(newContent)
        extract == complete /\ ReExtract(content, lastLength, cached)
        cachedAfter == IF extract THEN matched ELSE cached
    IN  [accumulatedContent |-> content,
         cachedSentences |-> cachedAfter,
         lastContentLength |-> IF extract THEN Len(content) ELSE lastLength,
         result |-> IF complete
                    THEN Bool(ContentLoop(AllSentences(matched, cachedAfter)))
                    ELSE "false"]

Content(event) ==
    /\ event.type = "content"
    /\ Feeds(event)
    /\ LET after == ContentCase(accumulatedContent, cachedSentences,
                                lastContentLength, event.value)
       IN  /\ accumulatedContent' = after.accumulatedContent
           /\ cachedSentences' = after.cachedSentences
           /\ lastContentLength' = after.lastContentLength
           /\ result' = after.result
    /\ fed' = Append(fed, event.value)
    /\ UNCHANGED <<toolCallCounts, occ>>
    /\ UNCHANGED hookVars

Unhandled_clears(event) ==
    /\ event.type \notin {"tool_call_request", "content"}
    /\ Feeds(event)
    /\ result' = "false"
    /\ accumulatedContent' = ""
    /\ UNCHANGED <<toolCallCounts, cachedSentences, lastContentLength, occ, fed>>
    /\ UNCHANGED hookVars

\* default
Unhandled(event) ==
    /\ event.type \notin {"tool_call_request", "content"}
    /\ Feeds(event)
    /\ result' = "false"
    /\ UNCHANGED <<engineVars, occ, fed>>
    /\ UNCHANGED hookVars

reset_keepsTracker ==
    /\ toolCallCounts' = EmptyMap
    /\ accumulatedContent' = ""
    /\ cachedSentences' = <<>>
    /\ call' = [op |-> "reset", clean |-> Constructed]
    /\ result' = "void"
    /\ occ' = [e \in DOMAIN occ |-> 0]
    /\ fed' = <<>>
    /\ UNCHANGED lastContentLength
    /\ UNCHANGED hookVars

reset ==
    /\ toolCallCounts' = EmptyMap
    /\ accumulatedContent' = ""
    /\ cachedSentences' = <<>>
    /\ lastContentLength' = 0
    /\ call' = [op |-> "reset", clean |-> Constructed]
    /\ result' = "void"
    /\ occ' = [e \in DOMAIN occ |-> 0]
    /\ fed' = <<>>
    /\ UNCHANGED hookVars

(***************************************************************************)
(* SpecTool: the engine fed tool-call requests of every kind, with a few   *)
(* content deltas and unhandled events in between.                         *)
(***************************************************************************)
InterleavedContent == {ContentEvent("Working.")}

NextTool ==
    \/ \E e \in ToolCallEvents :
          /\ e \in DOMAIN occ => occ[e] < MaxCalls
          /\ ToolCallRequest(e)
    \/ \E e \in InterleavedContent :
          /\ Len(fed) < MaxInterleaved
          /\ Content(e)
    \/ Unhandled(UnhandledEvent)
    \/ reset

SpecTool == Init /\ [][NextTool]_vars

(***************************************************************************)
(* Spec: the engine fed content deltas of every shape, with a tool-call    *)
(* request and unhandled events in between.                                *)
(***************************************************************************)
Fragments ==
    { "X",
      "Period.",
      " Period.",
      "Question?",
      "   .",
      Repeat("Period.", 9),
      Repeat("X", 101) \o ".",
      Repeat("a", 500),
      Repeat("A", 1100) \o "." }

Next ==
    \/ \E f \in Fragments :
          /\ Len(fed) < MaxEvents
          /\ Content(ContentEvent(f))
    \/ /\ occ[CallAB] < MaxInterleaved
       /\ ToolCallRequest(CallAB)
    \/ Unhandled(UnhandledEvent)
    \/ reset

Spec == Init /\ [][Next]_vars

(***************************************************************************)
(* SpecRepeat: the engine fed one sentence again and again, with a         *)
(* tool-call request and unhandled events in between.                      *)
(***************************************************************************)
RepeatedSentences ==
    { "Period.",
      "This is a test sentence.",
      " Next sentence!",
      "   .",
      Repeat("w", 99) \o "?",
      Repeat("w", 100) \o ".",
      "This is a very long sentence " \o Repeat("word ", 100) \o ".",
      Repeat("A", 1100) \o "." }

NextRepeat ==
    \/ \E s \in RepeatedSentences :
          /\ IF fed = <<>> THEN TRUE ELSE fed[1] = s
          /\ Len(fed) < MaxRepeats
          /\ Content(ContentEvent(s))
    \/ /\ occ[CallAB] < MaxInterleaved
       /\ ToolCallRequest(CallAB)
    \/ Unhandled(UnhandledEvent)
    \/ reset

SpecRepeat == Init /\ [][NextRepeat]_vars

(***************************************************************************)
(* SpecWindow: the engine fed fragments as long as the window and half as  *)
(* long, and single characters.                                            *)
(***************************************************************************)
WindowFragments == {Repeat("a", 500), Repeat("a", MAX_LOOPBACK_WINDOW), "b"}

NextWindow ==
    \/ \E f \in WindowFragments :
          /\ Len(fed) < MaxWindowEvents
          /\ Content(ContentEvent(f))
    \/ /\ occ[CallAB] < MaxInterleaved
       /\ ToolCallRequest(CallAB)
    \/ Unhandled(UnhandledEvent)
    \/ reset

SpecWindow == Init /\ [][NextWindow]_vars

(***************************************************************************)
(* useLoopBreaker: the effect (lines 33-88).  It runs after a render in    *)
(* which history, streamingState or cancelRequest changed; the render      *)
(* comes with the new streaming state and with at most one item appended   *)
(* to the history.                                                         *)
(***************************************************************************)
\* Lines 60-64: [name, description, JSON.stringify(resultDisplay)].join('-')
Signature(toolCall) ==
    toolCall.name \o "-" \o toolCall.description \o "-"
        \o JSONstringify(toolCall.resultDisplay)

\* Lines 67-70
SignatureHash(toolCall) == Sha256Hex(Signature(toolCall))

NotResponding_never(newState) == FALSE

\* Line 42: streamingState !== StreamingState.Responding
NotResponding(newState) == newState # "Responding"

\* Line 47: history.length <= lastHistoryLength.current
NotGrown(length, lastLength) == length <= lastLength

ProcessedLength_previous(newHistory) == Len(newHistory) - 1

\* Lines 52, 87: lastHistoryLength.current = history.length
ProcessedLength(newHistory) == Len(newHistory)

HookLoop_gt(newCount) == newCount > LOOP_THRESHOLD

\* Line 76: newCount >= LOOP_THRESHOLD
HookLoop(newCount) == newCount >= LOOP_THRESHOLD

\* Lines 57-79: the loop over lastItem.tools, from the counts and the flag
\* it starts with to the counts and the flag it ends with.
CountTools_firstOnly(counts, loopDetected, tools) ==
    IF tools = <<>> THEN [counts |-> counts, loopDetected |-> loopDetected]
    ELSE LET hash == SignatureHash(tools[1])
             newCount == MapGet(counts, hash) + 1
         IN  [counts |-> MapSet(counts, hash, newCount),
              loopDetected |-> loopDetected \/ HookLoop(newCount)]

RECURSIVE CountTools(_, _, _)
CountTools(counts, loopDetected, tools) ==
    IF tools = <<>> THEN [counts |-> counts, loopDetected |-> loopDetected]
    ELSE LET hash == SignatureHash(tools[1])
             currentCount == MapGet(counts, hash)
             newCount == currentCount + 1
         IN  CountTools(MapSet(counts, hash, newCount),
                        loopDetected \/ HookLoop(newCount),
                        Tail(tools))

\* What the run does to the history of runs: an Idle run starts a streak,
\* a Responding run that comes with the streak's one-call tool group
\* appended continues it, any other run ends it.
StreakAfter(newState, item) ==
    IF newState = "Idle" THEN NewStreak
    ELSE IF /\ streak.ok
            /\ newState = "Responding"
            /\ item.type = "tool_group"
            /\ Len(item.tools) = 1
            /\ (streak.n = 0 \/ streak.item = item)
         THEN [ok |-> TRUE, n |-> streak.n + 1, item |-> item]
         ELSE NoStreak

RunEffect(newState, item) ==
    LET newHistory == IF item = NoItem THEN history ELSE Append(history, item)
        ran(counted, reasons) ==
            [ran |-> TRUE, appended |-> item, counted |-> counted,
             cancelRequest |-> reasons]
    IN  /\ history' = newHistory
        /\ streamingState' = newState
        /\ streak' = StreakAfter(newState, item)
        /\ idleLength' = IF newState = "Idle" THEN Len(newHistory) ELSE idleLength
        /\ IF newState = "Idle"
           THEN /\ toolCallCountsRef' = EmptyMap
                /\ lastHistoryLengthRef' = 0
                /\ effect' = ran(<<>>, <<>>)
           ELSE IF NotResponding(newState)
           THEN /\ UNCHANGED <<toolCallCountsRef, lastHistoryLengthRef>>
                /\ effect' = ran(<<>>, <<>>)
           ELSE IF NotGrown(Len(newHistory), lastHistoryLengthRef)
           THEN /\ UNCHANGED <<toolCallCountsRef, lastHistoryLengthRef>>
                /\ effect' = ran(<<>>, <<>>)
           ELSE LET lastItem == newHistory[Len(newHistory)]
                IN  IF lastItem.type # "tool_group"
                    THEN /\ lastHistoryLengthRef' = ProcessedLength(newHistory)
                         /\ UNCHANGED toolCallCountsRef
                         /\ effect' = ran(<<>>, <<>>)
                    ELSE LET end == CountTools(toolCallCountsRef, FALSE, lastItem.tools)
                         IN  /\ toolCallCountsRef' = end.counts
                             /\ effect' = ran(lastItem.tools,
                                              IF end.loopDetected
                                              THEN <<CancelReason>> ELSE <<>>)
                             /\ lastHistoryLengthRef' = ProcessedLength(newHistory)
        /\ cancels' = IF newState = "Idle" THEN 0
                      ELSE cancels + Len(effect'.cancelRequest)
        /\ UNCHANGED serviceVars

(***************************************************************************)
(* SpecHook: the hook under renders of every kind.                         *)
(***************************************************************************)
NextHook ==
    \/ \E newState \in StreamingStates, item \in HistoryItems :
          /\ Len(history) < MaxHistory
          /\ RunEffect(newState, item)
    \/ \E newState \in StreamingStates : RunEffect(newState, NoItem)

SpecHook == Init /\ [][NextHook]_vars

(***************************************************************************)
(* SpecGroups: the hook under tool groups of several kinds.                *)
(***************************************************************************)
NextGroups ==
    \/ \E newState \in StreamingStates, item \in GroupItems :
          /\ Len(history) < MaxGroups
          /\ RunEffect(newState, item)
    \/ \E newState \in StreamingStates : RunEffect(newState, NoItem)

SpecGroups == Init /\ [][NextGroups]_vars

(***************************************************************************)
(* Properties of the tool-call detector (SpecTool).                        *)
(***************************************************************************)
FedToolCall ==
    /\ call.op = "addAndCheck"
    /\ call.event.type = "tool_call_request"
    /\ call.event \in WellFormedCalls

\* The counter the service holds for a tool-call event.
CountOf(e) == MapGet(toolCallCounts, getToolCallKey(e.value))

\* Two requests with the same name and the same key/value pairs, in
\* whatever order.
Properties(e) == {e.value.args[i] : i \in 1..Len(e.value.args)}
SameCall(a, b) == a.value.name = b.value.name /\ Properties(a) = Properties(b)

RECURSIVE SumOcc(_)
SumOcc(S) ==
    IF S = {} THEN 0
    ELSE LET e == CHOOSE x \in S : TRUE IN occ[e] + SumOcc(S \ {e})

\* How often a request with the name and the key/value pairs of e was fed.
OccSameCall(e) == SumOcc({x \in WellFormedCalls : SameCall(x, e)})

\* C1: since construction or the last reset, whatever else was fed in
\* between, the first four times a tool-call request is fed addAndCheck
\* returns false, and the fifth time it returns true.
C1_FifthIdenticalCallDetected ==
    FedToolCall =>
        /\ occ[call.event] < TOOL_CALL_LOOP_THRESHOLD => result = "false"
        /\ occ[call.event] = TOOL_CALL_LOOP_THRESHOLD => result = "true"

C1_Witness ==
    /\ FedToolCall
    /\ call.event = CallAB
    /\ occ[CallAB] = TOOL_CALL_LOOP_THRESHOLD
    /\ result = "true"
    /\ occ[CallB] > 0
    /\ occ[CallOther] > 0
    /\ fed # <<>>

\* C2: the key does not depend on the order of the argument keys: requests
\* with the same name and the same key/value pairs increment one counter,
\* and the fifth of them, in whatever mix of orders, makes addAndCheck
\* return true.
C2_KeyOrderIndependent ==
    /\ \A a, b \in WellFormedCalls : SameCall(a, b) => CountOf(a) = CountOf(b)
    /\ FedToolCall =>
          (OccSameCall(call.event) = TOOL_CALL_LOOP_THRESHOLD => result = "true")

\* C3: requests with the same name and different arguments have different
\* keys and never share a counter: the counter of a request counts the
\* times it was fed and nothing fed with other arguments, and addAndCheck
\* returns true for it only on its own fifth occurrence or later.
C3_DifferentArgsDifferentCounters ==
    /\ \A a, b \in WellFormedCalls :
          (a.value.name = b.value.name /\ Properties(a) # Properties(b))
              => getToolCallKey(a.value) # getToolCallKey(b.value)
    /\ \A a \in WellFormedCalls :
          /\ occ[a] <= CountOf(a)
          /\ CountOf(a) <= OccSameCall(a)
    /\ (FedToolCall /\ result = "true")
          => OccSameCall(call.event) >= TOOL_CALL_LOOP_THRESHOLD

C3_Witness ==
    /\ FedToolCall
    /\ call.event = CallB
    /\ result = "false"
    /\ occ[CallB] = 1
    /\ CountOf(CallB) = 1
    /\ occ[CallAB] = TOOL_CALL_LOOP_THRESHOLD - 1
    /\ CountOf(CallAB) = TOOL_CALL_LOOP_THRESHOLD - 1

\* C9: addAndCheck never raises an error to its caller, whatever the event.
C9_NeverRaises == result # "TypeError"

(***************************************************************************)
(* Properties of the content detector and of the engine (Spec, SpecRepeat).*)
(***************************************************************************)
FedContent == call.op = "addAndCheck" /\ call.event.type = "content"

RECURSIVE Concat(_)
Concat(fragments) ==
    IF fragments = <<>> THEN "" ELSE fragments[1] \o Concat(Tail(fragments))

\* s is one complete sentence and nothing else.
SingleSentence(s) == MatchSentences(s) = <<s>>

\* Every delta fed since construction or the last reset was the sentence s.
OnlyFed(s) == fed # <<>> /\ \A i \in 1..Len(fed) : fed[i] = s

\* C4: from a fresh or just-reset engine, when every content delta is the
\* same single complete sentence and ten copies of it fit in the window,
\* the first nine deltas return false and the tenth returns true.
C4_TenthIdenticalSentenceDetected ==
    (/\ FedContent
     /\ OnlyFed(call.event.value)
     /\ SingleSentence(call.event.value)
     /\ CONTENT_LOOP_THRESHOLD * Len(call.event.value) <= MAX_LOOPBACK_WINDOW)
        => /\ Len(fed) < CONTENT_LOOP_THRESHOLD => result = "false"
           /\ Len(fed) = CONTENT_LOOP_THRESHOLD => result = "true"

C4_Witness ==
    /\ FedContent
    /\ OnlyFed(call.event.value)
    /\ SingleSentence(call.event.value)
    /\ CONTENT_LOOP_THRESHOLD * Len(call.event.value) = MAX_LOOPBACK_WINDOW
    /\ Len(fed) = CONTENT_LOOP_THRESHOLD
    /\ result = "true"
    /\ occ[CallAB] > 0

\* C5: a content delta that holds none of '.', '!', '?' makes addAndCheck
\* return false, whatever the state it is fed in.
C5_NoPunctuationNoLoop ==
    (FedContent /\ ~HasTerminal(call.event.value)) => result = "false"

\* The delta without punctuation was fed while the accumulated content
\* holds a sentence ten times over.
C5_Witness ==
    /\ FedContent
    /\ ~HasTerminal(call.event.value)
    /\ call.event.value # ""
    /\ ContentLoop(MatchSentences(accumulatedContent))
    /\ result = "false"

C7_ResetRestoresConstructed == call.op = "reset" => Constructed

\* reset() was called on a service that was not as constructed.
C7_Witness == call.op = "reset" /\ ~call.clean /\ Constructed

\* C8: an event that is neither a tool-call request nor a content delta
\* makes addAndCheck return false and changes nothing in the service.
C8_UnhandledEventInert ==
    [][(call'.op = "addAndCheck"
            /\ call'.event.type \notin {"tool_call_request", "content"})
          => (result' = "false" /\ UNCHANGED engineVars)]_vars

\* An unhandled event was fed to a service that holds counts, content and
\* cached sentences.
C8_Witness ==
    /\ call.op = "addAndCheck"
    /\ call.event.type \notin {"tool_call_request", "content"}
    /\ result = "false"
    /\ toolCallCounts # EmptyMap
    /\ accumulatedContent # ""
    /\ cachedSentences # <<>>

(***************************************************************************)
(* Properties of the hook (SpecHook).                                      *)
(***************************************************************************)
\* C10: with the counters cleared, when tool groups that hold the same one
\* tool call are appended one at a time while Responding, the runs for the
\* first four do not call cancelRequest and the run for the fifth calls it
\* once, with the fixed reason.
C10_FifthRepeatedGroupCancels ==
    (streak.ok /\ streak.n > 0) =>
        /\ streak.n < LOOP_THRESHOLD => effect.cancelRequest = <<>>
        /\ streak.n = LOOP_THRESHOLD => effect.cancelRequest = <<CancelReason>>

\* The fifth group arrived in a history that held other items before the
\* counters were cleared.
C10_Witness ==
    /\ streak.ok
    /\ streak.n = LOOP_THRESHOLD
    /\ Len(history) > LOOP_THRESHOLD
    /\ effect.cancelRequest = <<CancelReason>>

\* The tool groups appended since the last Idle run that hold the tool call.
FreshEntries(toolCall) ==
    Cardinality({i \in (idleLength + 1)..Len(history) :
                    /\ history[i].type = "tool_group"
                    /\ \E j \in 1..Len(history[i].tools) : history[i].tools[j] = toolCall})

\* C11: between two Idle runs the effect calls cancelRequest at most once,
\* however many tool groups with the looping call are appended after the
\* call while Responding.
C11_CancelOncePerEpisode == cancels <= 1

\* C12: a run of the effect (other than the Idle run, which clears) that
\* comes with no longer a history than the run before it, or with a newest
\* item that is not a tool group, changes no counter and does not call
\* cancelRequest.
C12_NoGrowthNoWork ==
    [][(/\ effect'.ran
        /\ streamingState' # "Idle"
        /\ IF Len(history') <= Len(history) THEN TRUE
           ELSE history'[Len(history')].type # "tool_group")
          => (/\ toolCallCountsRef' = toolCallCountsRef
              /\ effect'.cancelRequest = <<>>)]_vars

\* C13: an Idle run clears the counters, and after it cancelRequest is
\* called only for a tool call that is held by LOOP_THRESHOLD tool groups
\* appended since that run: LOOP_THRESHOLD - 1 of them never bring the call.
C13_IdleResetsCounts ==
    /\ streamingState = "Idle" => toolCallCountsRef = EmptyMap
    /\ (effect.ran /\ effect.cancelRequest # <<>>)
          => \E i \in 1..Len(effect.counted) :
                FreshEntries(effect.counted[i]) >= LOOP_THRESHOLD

\* C14: tool calls that differ in name, description or serialized result
\* never increment the same counter: a run that counts one tool call
\* leaves the counter of every other tool call as it was.
C14_DistinctCallsDistinctCounters ==
    [][\A a, b \in GroupTools :
          (a # b /\ effect'.ran /\ effect'.counted = <<a>>)
              => MapGet(toolCallCountsRef', SignatureHash(b))
                     = MapGet(toolCallCountsRef, SignatureHash(b))]_vars

\* How many of the tool calls the run counted have the key.
RECURSIVE CountedWithKey(_, _)
CountedWithKey(tools, key) ==
    IF tools = <<>> THEN 0
    ELSE (IF SignatureHash(tools[1]) = key THEN 1 ELSE 0)
            + CountedWithKey(Tail(tools), key)

\* The keys of the tool calls that can come in a tool group.
GroupKeys == {SignatureHash(t) : t \in GroupTools}

\* C25: a run that counts a tool group increments, for every tool call of
\* the group, the counter of the key of the call, and calls cancelRequest
\* at most once: once when the counter of one of its calls or more is at
\* LOOP_THRESHOLD or above after the increments, and not at all otherwise.
C25_GroupCountedCancelOnce ==
    [][(effect'.ran /\ effect'.counted # <<>>)
          => /\ \A key \in GroupKeys :
                   MapGet(toolCallCountsRef', key)
                       = MapGet(toolCallCountsRef, key)
                             + CountedWithKey(effect'.counted, key)
             /\ Len(effect'.cancelRequest) <= 1
             /\ effect'.cancelRequest = <<CancelReason>>
                   <=> \E j \in 1..Len(effect'.counted) :
                          MapGet(toolCallCountsRef', SignatureHash(effect'.counted[j]))
                              >= LOOP_THRESHOLD]_vars

\* A group of two tool calls was counted, both counters reached
\* LOOP_THRESHOLD, and cancelRequest was called once.
C25_Witness ==
    /\ effect.ran
    /\ effect.counted = <<ToolA, ToolB>>
    /\ MapGet(toolCallCountsRef, SignatureHash(ToolA)) >= LOOP_THRESHOLD
    /\ MapGet(toolCallCountsRef, SignatureHash(ToolB)) >= LOOP_THRESHOLD
    /\ effect.cancelRequest = <<CancelReason>>

\* C26: a run of the effect in a streaming state other than Idle and
\* Responding changes no counter, leaves lastHistoryLength as it was and
\* does not call cancelRequest, whatever was appended to the history; and a
\* run in state Idle does not call cancelRequest.
C26_OtherStatesInert ==
    [][effect'.ran
          => /\ streamingState' \notin {"Idle", "Responding"}
                   => /\ toolCallCountsRef' = toolCallCountsRef
                      /\ lastHistoryLengthRef' = lastHistoryLengthRef
                      /\ effect'.cancelRequest = <<>>
             /\ streamingState' = "Idle" => effect'.cancelRequest = <<>>]_vars

\* A run in state WaitingForConfirmation came with a tool group appended
\* whose call was one increment from LOOP_THRESHOLD, and left the counter
\* and lastHistoryLength behind the history.
C26_Witness ==
    /\ effect.ran
    /\ streamingState = "WaitingForConfirmation"
    /\ effect.appended = ToolGroup(<<ToolA>>)
    /\ MapGet(toolCallCountsRef, SignatureHash(ToolA)) = LOOP_THRESHOLD - 1
    /\ lastHistoryLengthRef < Len(history)
    /\ effect.cancelRequest = <<>>

\* The tool groups that hold the tool call among the items a run can have
\* counted since the last Idle run: the items appended since that run, and
\* the item that was the newest one at that run.
CountableEntries(toolCall) ==
    Cardinality({i \in 1..Len(history) :
                    /\ i >= idleLength
                    /\ history[i].type = "tool_group"
                    /\ \E j \in 1..Len(history[i].tools) : history[i].tools[j] = toolCall})

\* C28: lastHistoryLength decreases in an Idle run only; a run other than
\* an Idle one changes counters only by counting tool calls, which it does
\* only when the history is longer than lastHistoryLength, the calls are
\* those of the newest item, and lastHistoryLength is the length of the
\* history after the run; so that, since the last Idle run, a tool group
\* of the history was counted once at most.
C28_EntryCountedAtMostOnce ==
    [][effect'.ran
          => /\ streamingState' # "Idle" => lastHistoryLengthRef' >= lastHistoryLengthRef
             /\ lastHistoryLengthRef' <= Len(history')
             /\ (streamingState' # "Idle" /\ toolCallCountsRef' # toolCallCountsRef)
                   => effect'.counted # <<>>
             /\ effect'.counted # <<>>
                   => /\ Len(history') > lastHistoryLengthRef
                      /\ effect'.counted = history'[Len(history')].tools
                      /\ lastHistoryLengthRef' = Len(history')
             /\ (MapGet(toolCallCountsRef, SignatureHash(ToolA))
                     <= CountableEntries(ToolA))']_vars

\* Two tool groups were counted since the component mounted, and a later
\* Responding run with nothing appended counted nothing.
C28_Witness ==
    /\ effect.ran
    /\ streamingState = "Responding"
    /\ effect.appended = NoItem
    /\ effect.counted = <<>>
    /\ idleLength = 0
    /\ history # <<>>
    /\ history[Len(history)].type = "tool_group"
    /\ lastHistoryLengthRef = Len(history)
    /\ MapGet(toolCallCountsRef, SignatureHash(ToolA)) = 2

(***************************************************************************)
(* More properties of the content detector (Spec, SpecRepeat, SpecWindow). *)
(***************************************************************************)
\* A sentence of s is a maximal non-empty run of non-terminal characters
\* followed by one terminal character.  SentenceEnds(s) is where the
\* sentences of s end, and SentenceEnding(s, T, b) the sentence that ends
\* at b, T being the places of the terminal characters of s.
SentenceEnds(s) ==
    LET T == TerminalPositions(s)
    IN  {b \in T : b > 1 /\ (b - 1) \notin T}

SentenceEnding(s, T, b) ==
    LET before == {k \in T : k < b}
    IN  IF before = {} THEN SubSeq(s, 1, b)
        ELSE SubSeq(s, Max(before) + 1, b)

\* C15: when the accumulated content after a content delta holds fewer
\* than two sentences, addAndCheck returns false, however often the delta
\* has been fed.
C15_FewerThanTwoSentencesNoLoop ==
    (FedContent /\ Cardinality(SentenceEnds(accumulatedContent)) < 2)
        => result = "false"

\* A delta with punctuation was fed for at least the second time, and the
\* accumulated content holds one sentence.
C15_Witness ==
    /\ FedContent
    /\ HasTerminal(call.event.value)
    /\ OnlyFed(call.event.value)
    /\ Len(fed) >= 2
    /\ Cardinality(SentenceEnds(accumulatedContent)) = 1
    /\ result = "false"

\* C16: from a fresh or just-reset engine, when every content delta is the
\* same single sentence, without white space around it, and ten copies of
\* it do not fit in the window, every delta returns false (and none
\* raises), however many were fed.
C16_LongSentenceNeverDetected ==
    (/\ FedContent
     /\ OnlyFed(call.event.value)
     /\ SingleSentence(call.event.value)
     /\ Trim(call.event.value) = call.event.value
     /\ CONTENT_LOOP_THRESHOLD * Len(call.event.value) > MAX_LOOPBACK_WINDOW)
        => result = "false"

\* The eleventh copy of a sentence of which nine fit in the window.
C16_Witness ==
    /\ FedContent
    /\ OnlyFed(call.event.value)
    /\ SingleSentence(call.event.value)
    /\ Trim(call.event.value) = call.event.value
    /\ CONTENT_LOOP_THRESHOLD * Len(call.event.value) > MAX_LOOPBACK_WINDOW
    /\ (CONTENT_LOOP_THRESHOLD - 1) * Len(call.event.value) <= MAX_LOOPBACK_WINDOW
    /\ Len(fed) > CONTENT_LOOP_THRESHOLD
    /\ result = "false"

\* What a window of w characters keeps of a first fragment of w characters
\* and of one more character fed after it.
WindowOf(w) ==
    /\ (Len(fed) = 1 /\ Len(fed[1]) = w) => accumulatedContent = fed[1]
    /\ (Len(fed) = 2 /\ Len(fed[1]) = w /\ Len(fed[2]) = 1)
          => accumulatedContent = Slice(fed[1], 1) \o fed[2]

C17_DetectionLatched ==
    [][(/\ call'.op = "addAndCheck"
        /\ call'.event.type = "tool_call_request"
        /\ ~getToolCallKeyThrows(call'.event)
        /\ MapGet(toolCallCounts, getToolCallKey(call'.event.value))
               >= TOOL_CALL_LOOP_THRESHOLD)
          => result' = "true"]_vars

\* A request was fed after its fifth occurrence, with other events fed in
\* between.
C17_Witness ==
    /\ FedToolCall
    /\ occ[call.event] > TOOL_CALL_LOOP_THRESHOLD
    /\ CountOf(call.event) > TOOL_CALL_LOOP_THRESHOLD
    /\ result = "true"
    /\ fed # <<>>
    /\ occ[CallOther] > 0

\* C19: a tool-call request that addAndCheck answers increments the
\* counter of exactly one key by one and leaves the other keys as they
\* were; no call but reset() (not one that raises either) removes a key or
\* lowers a counter.
C19_CounterMonotone ==
    [][/\ (/\ call'.op = "addAndCheck"
           /\ call'.event.type = "tool_call_request"
           /\ result' \in {"true", "false"})
             => \E key \in DOMAIN toolCallCounts' :
                   /\ toolCallCounts'[key] = MapGet(toolCallCounts, key) + 1
                   /\ DOMAIN toolCallCounts' = DOMAIN toolCallCounts \cup {key}
                   /\ \A k \in DOMAIN toolCallCounts \ {key} :
                         toolCallCounts'[k] = toolCallCounts[k]
       /\ call'.op # "reset"
             => \A k \in DOMAIN toolCallCounts :
                   /\ k \in DOMAIN toolCallCounts'
                   /\ toolCallCounts'[k] >= toolCallCounts[k]]_vars

\* A request was counted for the second time while the map holds the
\* counters of two other requests.
C19_Witness ==
    /\ FedToolCall
    /\ CountOf(call.event) = 2
    /\ Cardinality(DOMAIN toolCallCounts) >= 3
    /\ result = "false"

(***************************************************************************)
(* The answer to a content delta (Spec).                                   *)
(***************************************************************************)
\* How many sentences of s are, trimmed, the trimmed last sentence of s.
LastSentenceCount(s) ==
    LET T == TerminalPositions(s)
        ends == {b \in T : b > 1 /\ (b - 1) \notin T}
        lastSentence == Trim(SentenceEnding(s, T, Max(ends)))
    IN  Cardinality({b \in ends : Trim(SentenceEnding(s, T, b)) = lastSentence})

\* C20: addAndCheck answers a content delta with true exactly when the
\* delta holds one of '.', '!', '?', the accumulated content then holds at
\* least two sentences, and at least CONTENT_LOOP_THRESHOLD of them are,
\* trimmed, the trimmed last sentence, consecutive or not.
C20_ContentLoopIff ==
    FedContent =>
        (result = "true" <=>
            /\ HasTerminal(call.event.value)
            /\ Cardinality(SentenceEnds(accumulatedContent)) >= 2
            /\ LastSentenceCount(accumulatedContent) >= CONTENT_LOOP_THRESHOLD)

\* The tenth copy of a sentence was fed after another sentence that came
\* after the first nine.
C20_Witness ==
    /\ FedContent
    /\ fed = <<Repeat("Period.", 9), "Question?", "Period.">>
    /\ result = "true"

(***************************************************************************)
(* Properties of the sentence cache (Spec, SpecRepeat).                    *)
(***************************************************************************)
RECURSIVE SentencesEndingAt(_, _, _)
SentencesEndingAt(s, T, ends) ==
    IF ends = {} THEN <<>>
    ELSE LET b == Min(ends)
         IN  <<SentenceEnding(s, T, b)>> \o SentencesEndingAt(s, T, ends \ {b})

\* The sentences of s, in order.
FreshSentences(s) ==
    LET T == TerminalPositions(s)
    IN  SentencesEndingAt(s, T, {b \in T : b > 1 /\ (b - 1) \notin T})

IsPrefix(p, q) == Len(p) <= Len(q) /\ p = SubSeq(q, 1, Len(p))

\* A content delta is fed in the step.
FeedsContent == call'.op = "addAndCheck" /\ call'.event.type = "content"

\* Appending the delta of the step overflows the window.
Overflows == Len(accumulatedContent) + Len(call'.event.value) > MAX_LOOPBACK_WINDOW

\* C21: the answer to a content delta depends on the delta and on the
\* accumulated content only: an engine with the same content and any other
\* cache or tracker gives the same answer, which is the answer computed
\* from the sentences of the content it then holds.
C21_AnswerIndependentOfCache ==
    [][FeedsContent =>
          /\ \A cache \in {<<>>, <<"Another sentence.">>, FreshSentences(accumulatedContent)},
                tracker \in {0, Len(accumulatedContent), MAX_LOOPBACK_WINDOW} :
                ContentCase(accumulatedContent, cache, tracker, call'.event.value).result
                    = result'
          /\ result' = Bool(/\ HasTerminal(call'.event.value)
                            /\ Cardinality(SentenceEnds(accumulatedContent')) >= 2
                            /\ LastSentenceCount(accumulatedContent')
                                   >= CONTENT_LOOP_THRESHOLD)]_vars

\* The answer is true while the cache holds fewer sentences than the
\* threshold.
C21_Witness ==
    /\ FedContent
    /\ result = "true"
    /\ cachedSentences # <<>>
    /\ Len(cachedSentences) < CONTENT_LOOP_THRESHOLD

\* Appending the last delta fed overflowed the window.
Overflowed ==
    /\ FedContent
    /\ LET before == Len(Concat(SubSeq(fed, 1, Len(fed) - 1)))
       IN  Min({before, MAX_LOOPBACK_WINDOW}) + Len(call.event.value)
               > MAX_LOOPBACK_WINDOW

\* C22: a content delta that overflows the window clears the cache and
\* sets the tracker to 0 before the check: without punctuation in the delta
\* the update ends with an empty cache and tracker 0; with punctuation the
\* cache is extracted again from the limited content.
C22_TruncationClearsCache ==
    Overflowed =>
        IF ~HasTerminal(call.event.value)
        THEN cachedSentences = <<>> /\ lastContentLength = 0
        ELSE /\ cachedSentences = FreshSentences(accumulatedContent)
             /\ lastContentLength = Len(accumulatedContent)

\* The window overflowed on a delta without punctuation, after a delta
\* with punctuation had filled the cache.
C22_Witness ==
    /\ Overflowed
    /\ ~HasTerminal(call.event.value)
    /\ HasTerminal(fed[1])
    /\ Len(fed[1]) <= MAX_LOOPBACK_WINDOW
    /\ cachedSentences = <<>>
    /\ lastContentLength = 0

\* C23: a content delta with punctuation extracts the cache again from the
\* accumulated content, and sets the tracker to its length, exactly when
\* the cache is empty (also: emptied by the overflow) or the content is
\* more than 100 characters longer than the tracker; otherwise the cache
\* and the tracker stay as they were.
C23_ReExtractIff ==
    [][(FeedsContent /\ HasTerminal(call'.event.value)) =>
          LET cache == IF Overflows THEN <<>> ELSE cachedSentences
              tracker == IF Overflows THEN 0 ELSE lastContentLength
          IN  IF cache = <<>> \/ Len(accumulatedContent') - tracker > 100
              THEN /\ cachedSentences' = FreshSentences(accumulatedContent')
                   /\ lastContentLength' = Len(accumulatedContent')
              ELSE /\ cachedSentences' = cache
                   /\ lastContentLength' = tracker]_vars

\* The content is exactly 100 characters longer than the tracker, and the
\* cache was not extracted again.
C23_Witness ==
    /\ FedContent
    /\ HasTerminal(call.event.value)
    /\ Len(accumulatedContent) - lastContentLength = 100
    /\ cachedSentences # <<>>
    /\ cachedSentences # FreshSentences(accumulatedContent)

\* C24: a content delta without punctuation that does not overflow the
\* window is appended to the accumulated content and changes nothing else:
\* not the cache, not the tracker, not the tool-call counters.
C24_NoPunctuationOnlyAppends ==
    [][(FeedsContent /\ ~HasTerminal(call'.event.value) /\ ~Overflows) =>
          /\ accumulatedContent' = accumulatedContent \o call'.event.value
          /\ UNCHANGED <<cachedSentences, lastContentLength, toolCallCounts>>]_vars

\* A long delta without punctuation was appended to an engine that holds
\* a cache and a counter.
C24_Witness ==
    /\ FedContent
    /\ ~HasTerminal(call.event.value)
    /\ Len(Concat(fed)) <= MAX_LOOPBACK_WINDOW
    /\ Len(accumulatedContent) - lastContentLength > 100
    /\ cachedSentences # <<>>
    /\ toolCallCounts # EmptyMap

\* C29: the cache is a prefix of the sentences of the accumulated content
\* (all of them while the tracker is the length of the content, none after
\* reset()), the tracker is at most the length of the content, and the
\* content, the tracker and the cache are bounded by the window.
C29_CacheIsPrefixOfFresh ==
    /\ IsPrefix(cachedSentences, FreshSentences(accumulatedContent))
    /\ lastContentLength = Len(accumulatedContent)
          => cachedSentences = FreshSentences(accumulatedContent)
    /\ lastContentLength <= Len(accumulatedContent)
    /\ Len(accumulatedContent) <= MAX_LOOPBACK_WINDOW
    /\ Len(Concat(cachedSentences)) <= MAX_LOOPBACK_WINDOW
    /\ call.op = "reset" => (cachedSentences = <<>> /\ lastContentLength = 0)

\* The cache holds some of the sentences of the content, not all, and the
\* tracker is behind the content.
C29_Witness ==
    /\ cachedSentences # <<>>
    /\ Len(cachedSentences) < Len(FreshSentences(accumulatedContent))
    /\ 0 < lastContentLength
    /\ lastContentLength < Len(accumulatedContent)

\* The answer to the last delta fed, from the deltas fed since
\* construction or the last reset alone.
AnswerFromFed(deltas) ==
    LET all == Concat(deltas)
        kept == Min({Len(all), MAX_LOOPBACK_WINDOW})
        content == SubSeq(all, Len(all) - kept + 1, Len(all))
    IN  Bool(/\ HasTerminal(deltas[Len(deltas)])
             /\ Cardinality(SentenceEnds(content)) >= 2
             /\ LastSentenceCount(content) >= CONTENT_LOOP_THRESHOLD)

\* C27: a tool-call request leaves the accumulated content, the cache and
\* the tracker as they were, and a content delta leaves the tool-call
\* counters as they were; the answer to a content delta is the one the
\* content deltas fed so far give, whatever tool-call requests came in
\* between, and the answer to a tool-call request the one its own
\* occurrences give.
C27_DetectorsDoNotInterfere ==
    [][/\ (call'.op = "addAndCheck" /\ call'.event.type = "tool_call_request")
             => /\ UNCHANGED <<accumulatedContent, cachedSentences, lastContentLength>>
                /\ call'.event \in WellFormedCalls
                      => result' = Bool(occ'[call'.event] >= TOOL_CALL_LOOP_THRESHOLD)
       /\ FeedsContent
             => /\ UNCHANGED toolCallCounts
                /\ result' = AnswerFromFed(fed')]_vars

\* A content delta was answered true after a tool-call request, and the
\* counter of the request is as the request left it.
C27_Witness ==
    /\ FedContent
    /\ result = "true"
    /\ occ[CallAB] > 0
    /\ CountOf(CallAB) = occ[CallAB]

(***************************************************************************)
(* The empty-sentence check (SpecRepeat).                                  *)
(***************************************************************************)
\* C30: every sentence matched in the accumulated content ends in its
\* terminal character and is not empty once trimmed, so the check of an
\* empty last sentence never decides the answer; a sentence of white space
\* and a terminal character is counted like any other: fed ten times or
\* more, it is answered true.
C30_NoEmptySentence ==
    LET sentences == MatchSentences(accumulatedContent)
    IN  /\ \A i \in 1..Len(sentences) :
              /\ Trim(sentences[i]) # ""
              /\ IsTerminal(Char(sentences[i], Len(sentences[i])))
        /\ (/\ FedContent
             /\ OnlyFed(call.event.value)
             /\ SingleSentence(call.event.value)
             /\ Len(Trim(call.event.value)) = 1
             /\ Len(fed) >= CONTENT_LOOP_THRESHOLD)
                => result = "true"

\* The sentence of white space and a full stop was fed for the tenth time.
C30_Witness ==
    /\ FedContent
    /\ OnlyFed("   .")
    /\ Len(fed) = CONTENT_LOOP_THRESHOLD
    /\ result = "true"

====
